---- MODULE Spec2Model ----
(***************************************************************************)
(* A model of codeswitch (src/src/main.rs): the recursive repository       *)
(* Scanner (scan_dir / scan_dir_recurse), the identity-stamped Cache       *)
(* (read_cache / read_cache_file / build_cache) and the Resolver (run /    *)
(* resolve_default).  Paths, the cache file and standard output are byte   *)
(* sequences (sequences of integers 0..255), as in the program.            *)
(***************************************************************************)
EXTENDS Integers, Sequences, FiniteSets, TLC

(***************************************************************************)
(* Bytes the program names.                                                *)
(***************************************************************************)
NUL == 0
NL == 10
SP == 32
PLUS == 43
SEP == 47
STAR == 42
QMARK == 63
DIGIT0 == 48
REPLACEMENT == 65533

(***************************************************************************)
(* File names used to build the bounded directory trees and queries.       *)
(*   "a" "b" are one byte long, "cc" "xx" two bytes long.                  *)
(***************************************************************************)
N_a == <<97>>
N_b == <<98>>
N_cc == <<99, 99>>
N_xx == <<120, 120>>
N_wild == <<95>>
N_empty == <<>>

\* a name that is no UTF-8 text (the byte FF), and the name made of the one
\* character U+FFFD (the bytes EF BF BD)
N_ff == <<255>>
N_fffd == <<239, 191, 189>>

(***************************************************************************)
(* Small sequence helpers.                                                 *)
(***************************************************************************)
Range(s) == {s[i] : i \in DOMAIN s}

Take(s, n) == SubSeq(s, 1, n)

Drop(s, n) == SubSeq(s, n + 1, Len(s))

RECURSIVE Flatten(_)
Flatten(ss) == IF ss = <<>> THEN <<>> ELSE Head(ss) \o Flatten(Tail(ss))

\* every sequence that lists the elements of set S exactly once
RECURSIVE Orders(_)
Orders(S) ==
    IF S = {} THEN {<<>>}
    ELSE UNION {{<<x>> \o r : r \in Orders(S \ {x})} : x \in S}

(***************************************************************************)
(* Paths (std::path).                                                      *)
(***************************************************************************)
\* PathBuf::push / Path::join for a relative argument: a separator is added
\* only when the left side is non-empty and does not already end in one.
PathPush(path, name) ==
    IF name # <<>> /\ Head(name) = SEP THEN name
    ELSE IF path # <<>> /\ path[Len(path)] # SEP THEN path \o <<SEP>> \o name
    ELSE path \o name

RECURSIVE Components(_)
\* Path::components for the paths of this program: split at '/', empty
\* components dropped.
Components(p) ==
    IF p = <<>> THEN <<>>
    ELSE LET seps == {i \in DOMAIN p : p[i] = SEP}
         IN IF seps = {} THEN <<p>>
            ELSE LET i == CHOOSE j \in seps : \A k \in seps : j <= k
                     rest == Components(Drop(p, i))
                 IN IF i = 1 THEN rest ELSE <<Take(p, i - 1)>> \o rest

\* Path::ends_with: whole components, compared from the end.
EndsWith(path, child) ==
    LET pc == Components(path)
        cc == Components(child)
    IN /\ Len(cc) <= Len(pc)
       /\ Drop(pc, Len(pc) - Len(cc)) = cc

\* Path::file_name: the final component, "None" for the empty path.
HasFileName(path) == Components(path) # <<>>

FileName(path) == LET c == Components(path) IN c[Len(c)]

\* a UTF-8 continuation byte
IsCont(b) == b >= 128 /\ b <= 191

\* The first chunk of a non-empty byte string as core::str::Utf8Chunks cuts
\* it: n bytes, either one well-formed scalar value cp, or (ok = FALSE) a
\* maximal ill-formed prefix, which to_string_lossy renders as one U+FFFD.
Utf8Chunk(bs) ==
    LET at(i) == IF i <= Len(bs) THEN bs[i] ELSE 0
        b1 == at(1)
        b2 == at(2)
        b3 == at(3)
        b4 == at(4)
        bad(n) == [n |-> n, ok |-> FALSE, cp |-> REPLACEMENT]
        good(n, cp) == [n |-> n, ok |-> TRUE, cp |-> cp]
        second3 == IF b1 = 224 THEN b2 >= 160 /\ b2 <= 191
                   ELSE IF b1 = 237 THEN b2 >= 128 /\ b2 <= 159
                   ELSE IsCont(b2)
        second4 == IF b1 = 240 THEN b2 >= 144 /\ b2 <= 191
                   ELSE IF b1 = 244 THEN b2 >= 128 /\ b2 <= 143
                   ELSE IsCont(b2)
    IN IF b1 < 128 THEN good(1, b1)
       ELSE IF b1 >= 194 /\ b1 <= 223
            THEN IF IsCont(b2) THEN good(2, (b1 - 192) * 64 + (b2 - 128)) ELSE bad(1)
       ELSE IF b1 >= 224 /\ b1 <= 239
            THEN IF ~second3 THEN bad(1)
                 ELSE IF ~IsCont(b3) THEN bad(2)
                 ELSE good(3, (b1 - 224) * 4096 + (b2 - 128) * 64 + (b3 - 128))
       ELSE IF b1 >= 240 /\ b1 <= 244
            THEN IF ~second4 THEN bad(1)
                 ELSE IF ~IsCont(b3) THEN bad(2)
                 ELSE IF ~IsCont(b4) THEN bad(3)
                 ELSE good(4, (b1 - 240) * 262144 + (b2 - 128) * 4096
                                  + (b3 - 128) * 64 + (b4 - 128))
       ELSE bad(1)

RECURSIVE ToStringLossy(_)
\* OsStr::to_string_lossy: the scalar values of the text, every ill-formed
\* chunk replaced by U+FFFD.  A String is a sequence of scalar values here.
ToStringLossy(bs) ==
    IF bs = <<>> THEN <<>>
    ELSE LET c == Utf8Chunk(bs) IN <<c.cp>> \o ToStringLossy(Drop(bs, c.n))

RECURSIVE IsUtf8(_)
\* Path::to_str succeeds only on valid UTF-8.
IsUtf8(bs) ==
    IF bs = <<>> THEN TRUE
    ELSE LET c == Utf8Chunk(bs) IN c.ok /\ IsUtf8(Drop(bs, c.n))

RECURSIVE ToStr(_)
\* Path::to_str of a valid path: its scalar values
ToStr(bs) ==
    IF bs = <<>> THEN <<>>
    ELSE LET c == Utf8Chunk(bs) IN <<c.cp>> \o ToStr(Drop(bs, c.n))

(***************************************************************************)
(* Directory trees.  A node is a directory: git says what its ".git" entry *)
(* is, io = "err" makes the stat of ".git" fail with an error other than   *)
(* NotFound, ents maps each child name to a subdirectory, a symlink (with  *)
(* the target text read_link returns) or nothing.                          *)
(***************************************************************************)
GitKinds == {"none", "dir", "file"}

Node(g, io, e) == [git |-> g, io |-> io, ents |-> e]

EmptyNode == Node("none", "ok", <<>>)

DirE(n) == [kind |-> "dir", node |-> n, target |-> <<>>]

LinkE(t) == [kind |-> "symlink", node |-> EmptyNode, target |-> t]

NoE == [kind |-> "none", node |-> EmptyNode, target |-> <<>>]

Repo == Node("dir", "ok", <<>>)

(***************************************************************************)
(* Scanner (scan_dir_recurse).  The program appends to one vector and      *)
(* pushes/pops one path buffer; here a call returns the entries it         *)
(* appended, and the path is passed down.  HashSet/HashMap iteration order *)
(* is unspecified, so a call has a set of possible outcomes.               *)
(***************************************************************************)
ErrOutcome == [dt |-> "Err", out |-> <<>>]

\* ".git" exists, whatever its type (dir.metadata(".git") returned Ok)
IsLeaf(node) == node.git # "none"

Subdirs(node) == {n \in DOMAIN node.ents : node.ents[n].kind = "dir"}

\* a variant of IsShorter that also keeps a link as long as its target
IsShorter_OrEqual(link, target) == Len(link) <= Len(target)

\* "but only if it's actually shorter"
IsShorter(link, target) == Len(link) < Len(target)

Symlinks(node) ==
    {n \in DOMAIN node.ents :
        /\ node.ents[n].kind = "symlink"
        /\ IsShorter(n, node.ents[n].target)}

\* "prune away dead symlinks"
LiveSymlinks(node) == {n \in Symlinks(node) : node.ents[n].target \in Subdirs(node)}

\* a variant of PlainSubdirs that keeps the targets of the symlinks
PlainSubdirs_All(node) == Subdirs(node)

\* "prune away subdirs for which we have symlinks that target them"
PlainSubdirs(node) == Subdirs(node) \ {node.ents[n].target : n \in LiveSymlinks(node)}

\* a variant of AliasExtra that never adds the path through the target
AliasExtra_Never(dtype, path, target) == <<>>

\* "make sure we also add the non-symlink version if it was a codebase"
AliasExtra(dtype, path, target) ==
    IF dtype = "Leaf" THEN <<PathPush(path, target)>> ELSE <<>>

RECURSIVE scan_dir_recurse(_, _)
RECURSIVE ScanSymlinks(_, _, _)
RECURSIVE ScanSubdirs(_, _, _)

scan_dir_recurse(node, path) ==
    IF node.io = "err" THEN {ErrOutcome}
    ELSE IF IsLeaf(node) THEN {[dt |-> "Leaf", out |-> <<path>>]}
    ELSE UNION {
            IF o1.dt = "Err" THEN {ErrOutcome}
            ELSE {IF o2.dt = "Err" THEN ErrOutcome
                  ELSE [dt |-> "Branch", out |-> o1.out \o o2.out] :
                     o2 \in ScanSubdirs(node, path, PlainSubdirs(node))} :
            o1 \in ScanSymlinks(node, path, LiveSymlinks(node))}

\* the loop "recurse into symlinks" over the links still to visit
ScanSymlinks(node, path, todo) ==
    IF todo = {} THEN {[dt |-> "Branch", out |-> <<>>]}
    ELSE UNION {
            LET target == node.ents[s].target
            IN UNION {
                 IF o1.dt = "Err" THEN {ErrOutcome}
                 ELSE {IF o2.dt = "Err" THEN ErrOutcome
                       ELSE [dt |-> "Branch",
                             out |-> o1.out \o AliasExtra(o1.dt, path, target) \o o2.out] :
                          o2 \in ScanSymlinks(node, path, todo \ {s})} :
                 o1 \in scan_dir_recurse(node.ents[target].node, PathPush(path, s))} :
            s \in todo}

\* the loop "recurse into the other subdirs" over the subdirs still to visit
ScanSubdirs(node, path, todo) ==
    IF todo = {} THEN {[dt |-> "Branch", out |-> <<>>]}
    ELSE UNION {
            UNION {
                 IF o1.dt = "Err" THEN {ErrOutcome}
                 ELSE {IF o2.dt = "Err" THEN ErrOutcome
                       ELSE [dt |-> "Branch", out |-> o1.out \o o2.out] :
                          o2 \in ScanSubdirs(node, path, todo \ {d})} :
                 o1 \in scan_dir_recurse(node.ents[d].node, PathPush(path, d))} :
            d \in todo}

\* a variant of scan_dir that reports a failed scan as a successful one
scan_dir_Swallow(node) ==
    {[ok |-> TRUE, codebases |-> o.out] : o \in scan_dir_recurse(node, <<>>)}

\* scan_dir: starts from the empty path; the outcome keeps only Ok/Err.
scan_dir(node) ==
    {[ok |-> o.dt # "Err", codebases |-> o.out] : o \in scan_dir_recurse(node, <<>>)}

(***************************************************************************)
(* Cache file format (build_cache, read_cache_file).                       *)
(***************************************************************************)
RECURSIVE U64LE(_, _)
\* WriteBytesExt::write_u64::<LittleEndian>: n bytes of v, low byte first
U64LE(v, n) == IF n = 0 THEN <<>> ELSE <<v % 256>> \o U64LE(v \div 256, n - 1)

RECURSIVE FromLE(_)
\* ReadBytesExt::read_u64::<LittleEndian>
FromLE(bs) == IF bs = <<>> THEN 0 ELSE Head(bs) + 256 * FromLE(Tail(bs))

U64Bytes == 8

\* the write_all calls of build_cache, in order
CacheWrites(stat, codebases) ==
    <<U64LE(stat.st_dev, U64Bytes), U64LE(stat.st_ino, U64Bytes)>>
    \o Flatten([i \in DOMAIN codebases |-> <<codebases[i], <<NUL>>>>])

\* The capacity of io::BufWriter::new.  std's is 8 KiB; it is scaled down with
\* the trees, so that the cache file of a handful of entries spans several
\* buffers, as the cache of some hundred repositories does.
BufCapacity == 8

RECURSIVE BufChunks(_, _, _)
\* The write(2) calls a BufWriter of capacity cap issues for a sequence of
\* write_all calls, buf being what it holds: data that does not fit flushes
\* the buffer first, data of at least cap bytes goes out directly, and the
\* drop at the end of build_cache flushes what is left.
BufChunks(writes, buf, cap) ==
    LET flushed == IF buf = <<>> THEN <<>> ELSE <<buf>>
    IN IF writes = <<>> THEN flushed
       ELSE LET w == Head(writes)
            IN IF Len(buf) + Len(w) > cap
               THEN flushed \o (IF Len(w) >= cap
                                THEN <<w>> \o BufChunks(Tail(writes), <<>>, cap)
                                ELSE BufChunks(Tail(writes), w, cap))
               ELSE IF Len(w) >= cap /\ w # <<>>
                    THEN flushed \o <<w>> \o BufChunks(Tail(writes), <<>>, cap)
                    ELSE BufChunks(Tail(writes), buf \o w, cap)

\* write(2) of chunk at offset off: a gap left by a truncation reads as zeros
WriteAt(data, off, chunk) ==
    LET n == IF off + Len(chunk) > Len(data) THEN off + Len(chunk) ELSE Len(data)
    IN [i \in 1..n |->
           IF i > off /\ i <= off + Len(chunk) THEN chunk[i - off]
           ELSE IF i <= Len(data) THEN data[i]
           ELSE NUL]

\* a variant of TrimTail that leaves the terminator in place
TrimTail_None(buf) == buf

RECURSIVE TrimTail(_)
\* "trim tail": pops every trailing NUL
TrimTail(buf) ==
    IF buf # <<>> /\ buf[Len(buf)] = NUL THEN TrimTail(Take(buf, Len(buf) - 1)) ELSE buf

RECURSIVE DecodeEntries(_)
\* the read_until(b'\0') loop: each piece runs to and including the next NUL,
\* or to the end of the file when no NUL is left
DecodeEntries(bs) ==
    IF bs = <<>> THEN <<>>
    ELSE LET nuls == {i \in DOMAIN bs : bs[i] = NUL}
             n == IF nuls = {} THEN Len(bs)
                  ELSE CHOOSE j \in nuls : \A k \in nuls : j <= k
         IN <<TrimTail(Take(bs, n))>> \o DecodeEntries(Drop(bs, n))

\* a variant of StampMatches that rejects only when both numbers differ
StampMatches_Either(cached_dev, cached_ino, stat) ==
    ~(cached_dev # stat.st_dev /\ cached_ino # stat.st_ino)

\* "first read dev and inode and check that they match"
StampMatches(cached_dev, cached_ino, stat) ==
    ~(cached_dev # stat.st_dev \/ cached_ino # stat.st_ino)

\* read_cache_file on an open file holding data
read_cache_file(stat, data) ==
    IF Len(data) < 2 * U64Bytes THEN [kind |-> "Err", codebases |-> <<>>]
    ELSE LET cached_dev == FromLE(SubSeq(data, 1, U64Bytes))
             cached_ino == FromLE(SubSeq(data, U64Bytes + 1, 2 * U64Bytes))
             codebases == DecodeEntries(Drop(data, 2 * U64Bytes))
         IN IF ~StampMatches(cached_dev, cached_ino, stat)
            THEN [kind |-> "None", codebases |-> <<>>]
            ELSE IF codebases = <<>> THEN [kind |-> "None", codebases |-> <<>>]
            ELSE [kind |-> "Some", codebases |-> codebases]

\* read_cache: a missing file is "no cache"
read_cache(stat, file) ==
    IF ~file.exists THEN [kind |-> "None", codebases |-> <<>>]
    ELSE read_cache_file(stat, file.data)

(***************************************************************************)
(* Resolver (run, resolve_default, print_codebase, print_codebases).       *)
(***************************************************************************)
IsDigit(b) == b >= DIGIT0 /\ b <= DIGIT0 + 9

RECURSIVE DigitsValue(_, _)
DigitsValue(ds, acc) ==
    IF ds = <<>> THEN acc ELSE DigitsValue(Tail(ds), 10 * acc + (Head(ds) - DIGIT0))

\* usize::from_str: decimal digits after an optional '+'.  The tokens of the
\* model are at most two characters long, far below the overflow of usize.
ParseUsize(str) ==
    LET ds == IF str # <<>> /\ Head(str) = PLUS THEN Tail(str) ELSE str
    IN IF ds # <<>> /\ \A i \in DOMAIN ds : IsDigit(ds[i])
       THEN [ok |-> TRUE, val |-> DigitsValue(ds, 0)]
       ELSE [ok |-> FALSE, val |-> 0]

\* codebases.retain(|path| path.ends_with(wanted_codebase))
RetainName(codebases, wanted) ==
    LET keep(path) == EndsWith(path, wanted) IN SelectSeq(codebases, keep)

\* a variant of ShouldRescan that forgets where the entries came from
ShouldRescan_Always(codebases, was_cached) == codebases = <<>>

\* "if we didn't find anything but the cache isn't fresh, let's try rescanning"
ShouldRescan(codebases, was_cached) == codebases = <<>> /\ was_cached

\* dirpath.windows(filter.len()).any(|window| window == filter)
Contains(hay, needle) ==
    \E i \in 1..(Len(hay) - Len(needle) + 1) : SubSeq(hay, i, i + Len(needle) - 1) = needle

\* a variant of DirpathLen that searches the whole path
DirpathLen_Whole(path, wanted) == Len(path)

\* the unsigned subtraction path.len() - wanted_codebase.len()
DirpathLen(path, wanted) == Len(path) - Len(wanted)

\* "we don't want to match the codebase itself again; just its dirpath"
KeepByFilter(path, wanted, filter) == Contains(Take(path, DirpathLen(path, wanted)), filter)

RetainFilter(codebases, wanted, filter) ==
    LET keep(path) == KeepByFilter(path, wanted, filter) IN SelectSeq(codebases, keep)

\* a variant of print_codebase that forgets the search root
print_codebase_Relative(dir, codebase) == codebase

\* print_codebase: dir.join(codebase), no newline
print_codebase(dir, codebase) == PathPush(dir, codebase)

\* print!("  {:2}  ", i + 1)
Fmt2(i) ==
    IF i < 10 THEN <<SP, DIGIT0 + i>> ELSE <<DIGIT0 + (i \div 10), DIGIT0 + (i % 10)>>

print_codebases(dir, codebases) ==
    Flatten([i \in DOMAIN codebases |->
                <<SP, SP>> \o Fmt2(i) \o <<SP, SP>> \o print_codebase(dir, codebases[i]) \o <<NL>>])

RECURSIVE GlobMatch(_, _)
\* glob::Pattern::matches with the default options, for patterns made of
\* literal characters, '?' and '*' (both also match a '/')
GlobMatch(pat, str) ==
    IF pat = <<>> THEN str = <<>>
    ELSE IF Head(pat) = STAR
         THEN GlobMatch(Tail(pat), str) \/ (str # <<>> /\ GlobMatch(pat, Tail(str)))
         ELSE /\ str # <<>>
              /\ (Head(pat) = QMARK \/ Head(pat) = Head(str))
              /\ GlobMatch(Tail(pat), Tail(str))

\* Pattern::matches_path: false for a path that is not valid UTF-8
matches_path(pat, path) == IsUtf8(path) /\ GlobMatch(pat, ToStr(path))

\* the least index of codebases satisfying hit, 0 for none
FirstIndex(hits) == IF hits = {} THEN 0 ELSE CHOOSE i \in hits : \A j \in hits : i <= j

\* "first check per-name defaults"
ResolveExact(config, wanted, codebases) ==
    LET key == ToStringLossy(wanted)
    IN IF key \in DOMAIN config.defaults
       THEN FirstIndex({i \in DOMAIN codebases :
                           ToStringLossy(codebases[i]) = config.defaults[key]})
       ELSE 0

\* a variant of ResolveGlobs that walks the candidates first and, for each,
\* the patterns
ResolveGlobs_CandidateMajor(patterns, codebases) ==
    FirstIndex({j \in DOMAIN codebases :
                   \E i \in DOMAIN patterns : matches_path(patterns[i], codebases[j])})

RECURSIVE ResolveGlobs(_, _)
\* "then check glob patterns (first match wins)": pattern by pattern, each
\* against every candidate in order
ResolveGlobs(patterns, codebases) ==
    IF patterns = <<>> THEN 0
    ELSE LET i == FirstIndex({j \in DOMAIN codebases : matches_path(Head(patterns), codebases[j])})
         IN IF i # 0 THEN i ELSE ResolveGlobs(Tail(patterns), codebases)

\* a variant of resolve_default in which an exact-name rule, once present for
\* the name, is the only rule consulted
resolve_default_ExactOnly(config, wanted, codebases) ==
    IF ToStringLossy(wanted) \in DOMAIN config.defaults
    THEN ResolveExact(config, wanted, codebases)
    ELSE ResolveGlobs(config.patterns, codebases)

\* resolve_default: Some(index) as a 1-based index, None as 0
resolve_default(config, wanted, codebases) ==
    LET i == ResolveExact(config, wanted, codebases)
    IN IF i # 0 THEN i ELSE ResolveGlobs(config.patterns, codebases)

\* a variant of IndexInRange that is one short at the upper end
IndexInRange_Short(idx, len) == 0 < idx /\ idx < len

\* "are we filtering by number?": the range test of the index
IndexInRange(idx, len) == 0 < idx /\ idx <= len

\* what the subdir suffix adds to the output
SubdirBytes(subdir) == IF subdir.some THEN subdir.v ELSE <<>>

Outcome(st, o, cb, sel, hint) ==
    [status |-> st, out |-> o, codebases |-> cb, sel |-> sel, hint |-> hint]

\* run from "are we filtering by number?" to its end: the status, what was
\* printed on standard output, the candidate list as last narrowed, the
\* 1-based index selected in it (0: none) and the hint written to stderr
RunFilter(dirpath, wanted, subdir, filter, config, codebases) ==
    LET parsed == ParseUsize(ToStringLossy(filter))
    IN IF parsed.ok
       THEN IF ~IndexInRange(parsed.val, Len(codebases))
            THEN Outcome("err_range", print_codebases(dirpath, codebases), codebases, 0, <<>>)
            ELSE Outcome("ok", print_codebase(dirpath, codebases[parsed.val]) \o <<NL>>,
                         codebases, parsed.val, <<>>)
       ELSE IF filter # <<>> /\ \E i \in DOMAIN codebases : DirpathLen(codebases[i], wanted) < 0
            THEN Outcome("panic", <<>>, codebases, 0, <<>>)
            ELSE LET cb == IF filter # <<>> THEN RetainFilter(codebases, wanted, filter)
                           ELSE codebases
                     idx == IF Len(cb) = 1 THEN 1 ELSE resolve_default(config, wanted, cb)
                 IN IF Len(cb) = 0 THEN Outcome("err_nomatch", <<>>, cb, 0, <<>>)
                    ELSE IF idx = 0
                         THEN Outcome("err_ambiguous", print_codebases(dirpath, cb), cb, 0,
                                      <<ToStringLossy(wanted), ToStringLossy(cb[1])>>)
                         ELSE Outcome("ok",
                                      print_codebase(dirpath, cb[idx]) \o SubdirBytes(subdir)
                                          \o <<NL>>,
                                      cb, idx, <<>>)

(***************************************************************************)
(* The environment: two physical directories, each with its (device,       *)
(* inode) stamp, reachable under three root paths ("/m" is the same        *)
(* directory as "/r", e.g. a bind mount), and the bounded trees they hold. *)
(***************************************************************************)
Dirs == {"d1", "d2"}

Stat(d) == IF d = "d1" THEN [st_dev |-> 2049, st_ino |-> 2]
           ELSE [st_dev |-> 2049, st_ino |-> 259]

R_r == <<47, 114>>
R_m == <<47, 109>>
R_q == <<47, 113>>

RootPaths == {R_r, R_m, R_q}

DirOf(dirpath) == IF dirpath = R_q THEN "d2" ELSE "d1"

Ents1(n1, e1) == (n1 :> e1)

Ents2(n1, e1, n2, e2) == (n1 :> e1) @@ (n2 :> e2)

Ents3(n1, e1, n2, e2, n3, e3) == (n1 :> e1) @@ (n2 :> e2) @@ (n3 :> e3)

Plain(e) == Node("none", "ok", e)

\* a/cc, b/cc and cc are repositories
T_three == Plain(Ents3(N_a, DirE(Plain(Ents1(N_cc, DirE(Repo)))),
                       N_b, DirE(Plain(Ents1(N_cc, DirE(Repo)))),
                       N_cc, DirE(Repo)))

\* a -> cc, cc is a repository, and so is b/a
T_alias == Plain(Ents3(N_a, LinkE(N_cc), N_cc, DirE(Repo),
                       N_b, DirE(Plain(Ents1(N_a, DirE(Repo))))))

\* a -> cc, cc is a repository
T_pair == Plain(Ents2(N_a, LinkE(N_cc), N_cc, DirE(Repo)))

\* a/cc and b/cc are repositories
T_two == Plain(Ents2(N_a, DirE(Plain(Ents1(N_cc, DirE(Repo)))),
                     N_b, DirE(Plain(Ents1(N_cc, DirE(Repo))))))

\* the root is a repository itself
T_root == Repo

\* <FF>/cc and <U+FFFD>/cc are repositories
T_lossy == Plain(Ents2(N_ff, DirE(Plain(Ents1(N_cc, DirE(Repo)))),
                       N_fffd, DirE(Plain(Ents1(N_cc, DirE(Repo))))))

\* nothing below the root
T_none == Plain(<<>>)

\* a/cc is a repository, the stat of b/.git fails with an I/O error
T_err == Plain(Ents2(N_a, DirE(Plain(Ents1(N_cc, DirE(Repo)))),
                     N_b, DirE(Node("none", "err", <<>>))))

(***************************************************************************)
(* State.                                                                  *)
(*   fs       the tree each directory holds                                *)
(*   cache    the one cache file: whether it exists, and its bytes         *)
(*   inv      per process, the invocation of run it is executing           *)
(*   scanned  history: the scan results build_cache obtained per directory *)
(*   last_scan  history: the latest scan build_cache obtained              *)
(*   runs     invocations started; changes: changes made to the trees      *)
(***************************************************************************)
VARIABLES fs, cache, inv, scanned, last_scan, runs, changes

vars == <<fs, cache, inv, scanned, last_scan, runs, changes>>

Procs == {1, 2}

NoSubdir == [some |-> FALSE, v |-> <<>>]

NoConfig == [defaults |-> <<>>, patterns |-> <<>>]

NoFile == [exists |-> FALSE, data |-> <<>>]

File(data) == [exists |-> TRUE, data |-> data]

\* the complete file build_cache leaves behind
CacheFile(stat, codebases) == Flatten(CacheWrites(stat, codebases))

Idle ==
    [pc |-> "idle", dirpath |-> <<>>, force_rebuild |-> FALSE, was_cached |-> FALSE,
     retry |-> FALSE, codebases |-> <<>>, wanted |-> <<>>, subdir |-> NoSubdir,
     filter |-> <<>>, config |-> NoConfig, wchunks |-> <<>>, woff |-> 0,
     out |-> <<>>, status |-> "none", sel |-> 0, hint |-> <<>>, nscan |-> 0, nmatch |-> 0]

NoScan == [some |-> FALSE, dir |-> "d1", codebases |-> <<>>]

Scan(d, codebases) == [some |-> TRUE, dir |-> d, codebases |-> codebases]

\* run fails: the error is reported and the process exits
Failed(r, st) == [r EXCEPT !.pc = "done", !.status = st]

(***************************************************************************)
(* Actions: the steps of one invocation of run, in program order.          *)
(***************************************************************************)
\* run is entered with its arguments; the root opens and is a directory, the
\* cache directory exists
Start(p, roots, rebuilds, maxruns) ==
    /\ inv[p].pc \in {"idle", "done"}
    /\ runs < maxruns
    /\ \E r \in roots, f \in rebuilds :
          inv' = [inv EXCEPT ![p] = [Idle EXCEPT !.pc = IF f THEN "scan" ELSE "read",
                                                 !.dirpath = r,
                                                 !.force_rebuild = f]]
    /\ runs' = runs + 1
    /\ UNCHANGED <<fs, cache, scanned, last_scan, changes>>

\* read_cache(&dir, &cachefn)
ReadCache(p) ==
    /\ inv[p].pc = "read"
    /\ LET r == read_cache(Stat(DirOf(inv[p].dirpath)), cache)
       IN inv' = [inv EXCEPT ![p] =
                     IF r.kind = "Err" THEN Failed(@, "err_io")
                     ELSE IF r.kind = "None" THEN [@ EXCEPT !.pc = "scan"]
                     ELSE [@ EXCEPT !.pc = "match", !.was_cached = TRUE,
                                    !.codebases = r.codebases]]
    /\ UNCHANGED <<fs, cache, scanned, last_scan, runs, changes>>

\* build_cache, "first, scan the target dir"
ScanDir(p) ==
    /\ inv[p].pc = "scan"
    /\ \E o \in scan_dir(fs[DirOf(inv[p].dirpath)]) :
          /\ inv' = [inv EXCEPT ![p] =
                        IF o.ok THEN [@ EXCEPT !.pc = "create", !.codebases = o.codebases,
                                               !.nscan = @ + 1]
                        ELSE Failed(@, "err_io")]
          /\ scanned' = IF o.ok
                        THEN [scanned EXCEPT ![DirOf(inv[p].dirpath)] = @ \cup {o.codebases}]
                        ELSE scanned
          /\ last_scan' = IF o.ok THEN Scan(DirOf(inv[p].dirpath), o.codebases)
                          ELSE last_scan
    /\ UNCHANGED <<fs, cache, runs, changes>>

\* a variant of Truncate that opens the file as it is
Truncate_Keep(data) == data

\* what fs::File::create leaves of the bytes of an existing file
Truncate(data) == <<>>

\* build_cache, fs::File::create: the file is created or truncated; the
\* writes that follow are collected by the BufWriter
CreateFile(p) ==
    /\ inv[p].pc = "create"
    /\ cache' = File(Truncate(cache.data))
    /\ inv' = [inv EXCEPT ![p] =
                  [@ EXCEPT !.pc = "write", !.woff = 0,
                            !.wchunks = BufChunks(CacheWrites(Stat(DirOf(inv[p].dirpath)),
                                                              inv[p].codebases),
                                                  <<>>, BufCapacity)]]
    /\ UNCHANGED <<fs, scanned, last_scan, runs, changes>>

\* build_cache, one write(2) of the BufWriter; after the last one (the flush
\* when the writer is dropped) build_cache returns to run
WriteChunk(p) ==
    /\ inv[p].pc = "write"
    /\ inv[p].wchunks # <<>>
    /\ cache' = File(WriteAt(cache.data, inv[p].woff, Head(inv[p].wchunks)))
    /\ inv' = [inv EXCEPT ![p] =
                  [@ EXCEPT !.wchunks = Tail(@),
                            !.woff = @ + Len(Head(inv[p].wchunks)),
                            !.pc = IF Tail(inv[p].wchunks) = <<>> THEN "match" ELSE "write"]]
    /\ UNCHANGED <<fs, scanned, last_scan, runs, changes>>

\* the "_" short-circuit: file_name().unwrap() of every entry, then the set
\* of basenames printed in the HashSet's order
Wildcard(r, order) ==
    [r EXCEPT !.pc = "done", !.wanted = N_wild, !.status = "ok",
              !.out = Flatten([i \in DOMAIN order |-> order[i] \o <<NL>>])]

\* run, from the "_" short-circuit to the rescan: name matching, and the
\* decision to rescan
Match(p, wanteds) ==
    /\ inv[p].pc = "match"
    /\ \E w \in (IF inv[p].retry THEN {inv[p].wanted} ELSE wanteds) :
          LET r == inv[p]
              cb == RetainName(r.codebases, w)
          IN IF w = N_wild
             THEN IF \E i \in DOMAIN r.codebases : ~HasFileName(r.codebases[i])
                  THEN inv' = [inv EXCEPT ![p] = [Failed(r, "panic") EXCEPT !.wanted = w]]
                  ELSE \E order \in Orders({FileName(r.codebases[i]) : i \in DOMAIN r.codebases}) :
                          inv' = [inv EXCEPT ![p] = Wildcard(r, order)]
             ELSE inv' = [inv EXCEPT ![p] =
                             [r EXCEPT !.wanted = w, !.codebases = cb, !.nmatch = @ + 1,
                                       !.retry = r.retry \/ ShouldRescan(cb, r.was_cached),
                                       !.pc = IF ~r.retry /\ ShouldRescan(cb, r.was_cached)
                                              THEN "scan" ELSE "filter"]]
    /\ UNCHANGED <<fs, cache, scanned, last_scan, runs, changes>>

\* run, from "are we filtering by number?" to its end
Resolve(p, subdirs, filters, configs) ==
    /\ inv[p].pc = "filter"
    /\ \E sd \in subdirs, f \in filters, cfg \in configs :
          LET r == inv[p]
              o == RunFilter(r.dirpath, r.wanted, sd, f, cfg, r.codebases)
          IN inv' = [inv EXCEPT ![p] =
                        [r EXCEPT !.pc = "done", !.subdir = sd, !.filter = f, !.config = cfg,
                                  !.status = o.status, !.out = o.out,
                                  !.codebases = o.codebases, !.sel = o.sel, !.hint = o.hint]]
    /\ UNCHANGED <<fs, cache, scanned, last_scan, runs, changes>>

\* the environment replaces the tree of a directory (repositories are added,
\* removed, moved); its stamp stays
FsChange(d, trees, maxchanges) ==
    /\ changes < maxchanges
    /\ \E t \in trees \ {fs[d]} : fs' = [fs EXCEPT ![d] = t]
    /\ changes' = changes + 1
    /\ UNCHANGED <<cache, inv, scanned, last_scan, runs>>

(***************************************************************************)
(* Specification of the Scanner alone: one invocation with --rebuild over  *)
(* every tree of a bounded family, up to the end of scan_dir.              *)
(***************************************************************************)
Names == {N_a, N_b, N_cc}

SubNames == {N_a, N_cc}

\* what a name of a second-level directory can be
KidEntries(n) ==
    {NoE} \cup {DirE(Node(g, "ok", <<>>)) : g \in GitKinds}
          \cup {LinkE(t) : t \in SubNames \ {n}}

\* the directories a root can hold
Kids ==
    {Plain(e) : e \in {f \in [SubNames -> UNION {KidEntries(n) : n \in SubNames}] :
                          \A n \in SubNames : f[n] \in KidEntries(n)}}
    \cup {Node(g, "ok", e) : g \in {"dir", "file"}, e \in {<<>>, Ents1(N_a, DirE(Repo))}}
    \cup {Node("none", "err", <<>>)}

\* what a name of the root can be: nothing, a directory, or a symlink to a
\* sibling name or to "xx", which no directory holds
RootEntries(n) ==
    {NoE} \cup {DirE(k) : k \in Kids} \cup {LinkE(t) : t \in (Names \ {n}) \cup {N_xx}}

ScanTrees ==
    {Plain(e) : e \in {f \in [Names -> UNION {RootEntries(n) : n \in Names}] :
                          \A n \in Names : f[n] \in RootEntries(n)}}
    \cup {Node(g, "ok", e) : g \in {"dir", "file"}, e \in {<<>>, Ents1(N_a, DirE(Repo))}}
    \cup {Node("none", "err", <<>>)}

InitScan ==
    /\ fs \in {[d \in Dirs |-> IF d = "d1" THEN t ELSE T_none] : t \in ScanTrees}
    /\ cache = NoFile
    /\ inv = [p \in Procs |-> Idle]
    /\ scanned = [d \in Dirs |-> {}]
    /\ last_scan = NoScan
    /\ runs = 0
    /\ changes = 0

\* the one root and the one setting of --rebuild of the scanner's invocation
ScanRoots == {R_r}

Rebuild == {TRUE}

NextScan == Start(1, ScanRoots, Rebuild, 1) \/ ScanDir(1)

SpecScan == InitScan /\ [][NextScan]_vars

(***************************************************************************)
(* Properties of the Scanner, checked under SpecScan.                      *)
(***************************************************************************)
\* q is a prefix of e, by whole components
HasPrefix(e, q) ==
    LET ce == Components(e)
        cq == Components(q)
    IN Len(cq) <= Len(ce) /\ Take(ce, Len(cq)) = cq

NotFound == [found |-> FALSE, node |-> EmptyNode]

RECURSIVE Lookup(_, _)
\* the directory a relative path names in a tree, a symlink standing for the
\* sibling directory it points at
Lookup(node, comps) ==
    IF comps = <<>> THEN [found |-> TRUE, node |-> node]
    ELSE IF Head(comps) \notin DOMAIN node.ents THEN NotFound
    ELSE LET e == node.ents[Head(comps)]
         IN IF e.kind = "dir" THEN Lookup(e.node, Tail(comps))
            ELSE IF /\ e.kind = "symlink"
                    /\ e.target \in DOMAIN node.ents
                    /\ node.ents[e.target].kind = "dir"
                 THEN Lookup(node.ents[e.target].node, Tail(comps))
                 ELSE NotFound

RECURSIVE Visited(_, _)
\* the directories the traversal enters, each with the path it has then
Visited(node, path) ==
    {[path |-> path, node |-> node]}
    \cup (IF node.io = "err" \/ IsLeaf(node) THEN {}
          ELSE UNION ({Visited(node.ents[node.ents[s].target].node, PathPush(path, s)) :
                          s \in LiveSymlinks(node)}
                      \cup {Visited(node.ents[d].node, PathPush(path, d)) :
                               d \in PlainSubdirs(node)}))

\* the invocation of process 1 holds the result of a completed scan
ScanDone == inv[1].pc = "create"

ScanTree == fs[DirOf(inv[1].dirpath)]

ScanResult == inv[1].codebases

\* the directories entered without a ".git" entry, where children are listed
Branches == {v \in Visited(ScanTree, <<>>) : v.node.io = "ok" /\ v.node.git = "none"}

\* the symlinks of a directory, by the file system's facts alone
LinksOf(node) == {n \in DOMAIN node.ents : node.ents[n].kind = "symlink"}

TargetIsSibling(node, s) ==
    /\ node.ents[s].target \in DOMAIN node.ents
    /\ node.ents[node.ents[s].target].kind = "dir"

\* C4: a directory whose ".git" entry exists but is not a directory is a dead
\* end: no entry of the scan result names it, under its own name or through
\* an alias, and no entry lies below it.
C4_GitlinkIsDeadEnd ==
    ScanDone =>
        \A i \in DOMAIN ScanResult :
            LET ce == Components(ScanResult[i])
            IN \A k \in 0..Len(ce) :
                  LET l == Lookup(ScanTree, Take(ce, k))
                  IN l.found => l.node.git # "file"

\* C7: for a symlink S to a sibling directory T with len(S) < len(T): when T
\* is a repository root (T/.git is a directory) the scan result holds both
\* the entry through S and the entry through T; when the recursion into S
\* reports "branch", no entry through T is added.
C7_AliasAddsBothEntries ==
    ScanDone =>
        \A v \in Branches : \A s \in LinksOf(v.node) :
            LET t == v.node.ents[s].target
            IN (TargetIsSibling(v.node, s) /\ Len(s) < Len(t)) =>
                  /\ v.node.ents[t].node.git = "dir" =>
                        /\ PathPush(v.path, s) \in Range(ScanResult)
                        /\ PathPush(v.path, t) \in Range(ScanResult)
                  /\ (\A o \in scan_dir_recurse(v.node.ents[t].node, PathPush(v.path, s)) :
                         o.dt = "Branch") =>
                        \A i \in DOMAIN ScanResult : ~HasPrefix(ScanResult[i], PathPush(v.path, t))

\* a root with the alias a -> cc, cc a repository, has been scanned, and one
\* with an alias below which repositories lie
C7_Witness ==
    /\ ScanDone
    /\ ScanTree.git = "none"
    /\ ScanTree.ents[N_a] = LinkE(N_cc)
    /\ ScanTree.ents[N_cc].kind = "dir"
    /\ ScanTree.ents[N_cc].node.git = "dir"
    /\ N_a \in Range(ScanResult)
    /\ N_cc \in Range(ScanResult)

\* C8: a symlink S whose name is not shorter than its target T, or whose
\* target is not a sibling subdirectory, is never traversed: no entry runs
\* through S; and T, when no shorter alias points at it, is traversed as a
\* plain subdirectory, the entries below it being a scan of T under its name.
C8_LongAliasNotTraversed ==
    ScanDone =>
        \A v \in Branches : \A s \in LinksOf(v.node) :
            LET t == v.node.ents[s].target
            IN (~TargetIsSibling(v.node, s) \/ Len(s) >= Len(t)) =>
                  /\ \A i \in DOMAIN ScanResult : ~HasPrefix(ScanResult[i], PathPush(v.path, s))
                  /\ (/\ TargetIsSibling(v.node, s)
                      /\ \A s2 \in LinksOf(v.node) :
                            v.node.ents[s2].target = t => Len(s2) >= Len(t)) =>
                        \E o \in scan_dir_recurse(v.node.ents[t].node, PathPush(v.path, t)) :
                            Range(o.out) =
                                {e \in Range(ScanResult) : HasPrefix(e, PathPush(v.path, t))}

\* a root with the symlink cc -> a (longer than its target), a holding a
\* repository a/cc, has been scanned: a/cc is recorded, nothing through cc
C8_Witness ==
    /\ ScanDone
    /\ ScanTree.git = "none"
    /\ ScanTree.ents[N_cc] = LinkE(N_a)
    /\ ScanTree.ents[N_a].kind = "dir"
    /\ PathPush(N_a, N_cc) \in Range(ScanResult)
    /\ \A i \in DOMAIN ScanResult : ~HasPrefix(ScanResult[i], N_cc)

\* s is a symlink of the directory to a sibling directory with a longer name
\* and no ".git" entry: an alias that survives pruning, its target no
\* repository root
BranchAlias(node, s) ==
    /\ s \in LinksOf(node)
    /\ TargetIsSibling(node, s)
    /\ Len(s) < Len(node.ents[s].target)
    /\ node.ents[node.ents[s].target].node.git = "none"

\* the names of a directory that lead into its subdirectory t: t itself and
\* the symlinks pointing at it
NamesFor(node, t) == {t} \cup {x \in LinksOf(node) : node.ents[x].target = t}

\* the entries of the scan result below the path q, in order
EntriesBelow(q) ==
    LET below(e) == HasPrefix(e, q) IN SelectSeq(ScanResult, below)

\* C15 as claimed: for a surviving alias S -> T, T no repository root, T is
\* traversed exactly once, through S: the entries leading into T are those of
\* one scan of T under the prefix S, and none lies under another name.
C15_TargetOnlyThroughOneAlias ==
    ScanDone =>
        \A v \in Branches : \A s \in LinksOf(v.node) :
            BranchAlias(v.node, s) =>
                LET t == v.node.ents[s].target
                IN /\ EntriesBelow(PathPush(v.path, s))
                          \in {o.out : o \in scan_dir_recurse(v.node.ents[t].node,
                                                              PathPush(v.path, s))}
                   /\ \A x \in NamesFor(v.node, t) \ {s} :
                          EntriesBelow(PathPush(v.path, x)) = <<>>

\* C15: for a surviving alias S -> T, T no repository root, T is left out of
\* the plain subdirectories and traversed once through each surviving alias
\* pointing at it: under the prefix of each such alias the entries are those
\* of one scan of T, and no entry lies under the prefix T or under a symlink
\* to T that did not survive.
C15_TargetOnlyThroughAliases ==
    ScanDone =>
        \A v \in Branches : \A s \in LinksOf(v.node) :
            BranchAlias(v.node, s) =>
                LET t == v.node.ents[s].target
                IN /\ EntriesBelow(PathPush(v.path, s))
                          \in {o.out : o \in scan_dir_recurse(v.node.ents[t].node,
                                                              PathPush(v.path, s))}
                   /\ \A x \in NamesFor(v.node, t) :
                          ~BranchAlias(v.node, x) => EntriesBelow(PathPush(v.path, x)) = <<>>

\* a root with the aliases a -> cc and b -> cc, cc holding the repository
\* cc/a, has been scanned: a/a and b/a are recorded, nothing under cc
C15_Witness ==
    /\ ScanDone
    /\ ScanTree.git = "none"
    /\ ScanTree.ents[N_a] = LinkE(N_cc)
    /\ ScanTree.ents[N_b] = LinkE(N_cc)
    /\ ScanTree.ents[N_cc].kind = "dir"
    /\ ScanTree.ents[N_cc].node.git = "none"
    /\ PathPush(N_a, N_a) \in Range(ScanResult)
    /\ PathPush(N_b, N_a) \in Range(ScanResult)
    /\ EntriesBelow(N_cc) = <<>>

\* C18: a scan result never holds the same relative path twice, for every
\* tree and every traversal order, two surviving symlinks to one sibling
\* repository included.
C18_NoDuplicateEntries ==
    ScanDone =>
        \A i, j \in DOMAIN ScanResult : i # j => ScanResult[i] # ScanResult[j]

(***************************************************************************)
(* Specification of the Resolver: one invocation of run, over a catalogue  *)
(* of trees, started with no cache file, an empty one, or the complete     *)
(* file an earlier invocation left for some tree.                          *)
(***************************************************************************)
ResolveTrees == {T_three, T_alias, T_pair, T_root, T_lossy}

\* "a", "cc", "xx", "_", and the empty name of a CODEBASE argument that starts
\* with '/'
Wanteds == {N_a, N_cc, N_xx, N_wild, N_empty}

\* the suffix "/b" of the CODEBASE argument, or none
SubdirArgs == {NoSubdir, [some |-> TRUE, v |-> <<47, 98>>]}

\* "", "0", "1", "2", "3", "4", "+2", "b", "c", "/"
Filters == {<<>>, <<48>>, <<49>>, <<50>>, <<51>>, <<52>>, <<43, 50>>, <<98>>, <<99>>, <<47>>}

P_a_cc == <<97, 47, 99, 99>>
P_b_cc == <<98, 47, 99, 99>>

\* cc = b/cc, then the pattern a*
Cfg_exact == [defaults |-> (N_cc :> P_b_cc), patterns |-> <<<<97, 42>>>>]

\* cc = xx (no candidate), then the pattern b?cc
Cfg_miss == [defaults |-> (N_cc :> N_xx), patterns |-> <<<<98, 63, 99, 99>>>>]

\* the patterns x* (matches nothing) and b*
Cfg_globs == [defaults |-> <<>>, patterns |-> <<<<120, 42>>, <<98, 42>>>>]

\* the patterns b* and a*
Cfg_order == [defaults |-> <<>>, patterns |-> <<<<98, 42>>, <<97, 42>>>>]

\* the pattern x* alone
Cfg_nohit == [defaults |-> <<>>, patterns |-> <<<<120, 42>>>>]

\* cc = <U+FFFD>/cc, a literal naming the directory <U+FFFD>
Cfg_lossy == [defaults |-> (N_cc :> <<REPLACEMENT, SEP, 99, 99>>), patterns |-> <<>>]

\* cc = xx (no candidate), then the pattern x* (matches nothing)
Cfg_silent == [defaults |-> (N_cc :> N_xx), patterns |-> <<<<120, 42>>>>]

Configs == {NoConfig, Cfg_exact, Cfg_miss, Cfg_globs, Cfg_order, Cfg_nohit, Cfg_lossy,
            Cfg_silent}

\* the cache files an earlier invocation can have left: none, one cut short
\* right after its creation, or a complete one for a scan of a tree
EarlierCaches(trees) ==
    {[file |-> NoFile, dir |-> "d1", codebases |-> <<>>],
     [file |-> File(<<>>), dir |-> "d1", codebases |-> <<>>]}
    \cup {[file |-> File(CacheFile(Stat(d), o.codebases)), dir |-> d, codebases |-> o.codebases] :
             d \in Dirs, o \in {x \in UNION {scan_dir(t) : t \in trees} : x.ok}}

InitWith(trees1, caches) ==
    /\ fs \in {[d \in Dirs |-> IF d = "d1" THEN t ELSE T_pair] : t \in trees1}
    /\ \E c \in caches :
          /\ cache = c.file
          /\ scanned = [d \in Dirs |-> IF c.file.exists /\ c.file.data # <<>> /\ d = c.dir
                                       THEN {c.codebases} ELSE {}]
          /\ last_scan = IF c.file.exists /\ c.file.data # <<>>
                         THEN Scan(c.dir, c.codebases) ELSE NoScan
    /\ inv = [p \in Procs |-> Idle]
    /\ runs = 0
    /\ changes = 0

InitResolve == InitWith(ResolveTrees, EarlierCaches(ResolveTrees))

\* the roots of the resolver's invocation, which runs without --rebuild
ResolveRoots == {R_r, R_q}

NoRebuild == {FALSE}

NextResolve ==
    \/ Start(1, ResolveRoots, NoRebuild, 1)
    \/ ReadCache(1)
    \/ ScanDir(1)
    \/ CreateFile(1)
    \/ WriteChunk(1)
    \/ Match(1, Wanteds)
    \/ Resolve(1, SubdirArgs, Filters, Configs)

SpecResolve == InitResolve /\ [][NextResolve]_vars

(***************************************************************************)
(* Specification of the Cache: a sequence of invocations of run over the   *)
(* three root paths, with and without --rebuild, while the tree of the     *)
(* first directory may change between and during them.                     *)
(***************************************************************************)
MaxRuns == 3

MaxFsChanges == 1

CacheTrees == {T_two, T_root, T_none, T_err}

InitCache ==
    InitWith(CacheTrees, {c \in EarlierCaches({}) : TRUE})

\* the queries of the cache's invocations: "cc", "xx", "_", with no
\* subdirectory suffix, no filter and no configuration
CacheWanteds == {N_cc, N_xx, N_wild}

AnyRebuild == {FALSE, TRUE}

JustNoSubdir == {NoSubdir}

JustNoFilter == {<<>>}

JustNoConfig == {NoConfig}

NextCache ==
    \/ Start(1, RootPaths, AnyRebuild, MaxRuns)
    \/ ReadCache(1)
    \/ ScanDir(1)
    \/ CreateFile(1)
    \/ WriteChunk(1)
    \/ Match(1, CacheWanteds)
    \/ Resolve(1, JustNoSubdir, JustNoFilter, JustNoConfig)
    \/ FsChange("d1", CacheTrees, MaxFsChanges)

SpecCache == InitCache /\ [][NextCache]_vars

(***************************************************************************)
(* Properties of the Cache, checked under SpecCache.                       *)
(***************************************************************************)
\* the stamp a cache file of at least sixteen bytes starts with
StampOf(data) ==
    [st_dev |-> FromLE(SubSeq(data, 1, U64Bytes)),
     st_ino |-> FromLE(SubSeq(data, U64Bytes + 1, 2 * U64Bytes))]

LiveStat(p) == Stat(DirOf(inv[p].dirpath))

\* the read of process p sees a file whose stamp is not its root's
ReadsForeignCache(p) ==
    /\ inv[p].pc = "read"
    /\ cache.exists
    /\ Len(cache.data) >= 2 * U64Bytes
    /\ StampOf(cache.data) # LiveStat(p)

\* C1: a cache read for a live root whose stamp differs from the stamp stored
\* in the file reports "no cache" (the invocation goes on to scan, nothing
\* cached), and the entry set an invocation filters is always one scanned
\* from its own root.
C1_ForeignCacheIsNoCache ==
    /\ [](\A p \in Procs :
             inv[p].pc = "match" => inv[p].codebases \in scanned[DirOf(inv[p].dirpath)])
    /\ [][\A p \in Procs :
             (ReadsForeignCache(p) /\ inv'[p] # inv[p]) =>
                 /\ inv'[p].pc = "scan"
                 /\ ~inv'[p].was_cached
                 /\ inv'[p].codebases = <<>>]_vars

\* after an invocation on another root left a cache with entries, a read for
\* this root has reported "no cache"
C1_Witness ==
    /\ inv[1].pc = "scan"
    /\ ~inv[1].force_rebuild
    /\ inv[1].nmatch = 0
    /\ cache.exists
    /\ Len(cache.data) > 2 * U64Bytes
    /\ StampOf(cache.data) # LiveStat(1)
    /\ runs >= 2

\* C2: in every invocation the Scanner runs at most once; a rescan after name
\* matching happens if and only if the entry set came from the cache and name
\* matching left no candidate; name matching is then repeated exactly once,
\* on the fresh result, and no rescan follows a fresh scan.
C2_OneRescan ==
    /\ [](\A p \in Procs :
             /\ inv[p].nscan <= 1
             /\ inv[p].nmatch <= 2
             /\ inv[p].retry => inv[p].was_cached
             /\ inv[p].nmatch = 2 => (inv[p].retry /\ inv[p].nscan = 1))
    /\ [][\A p \in Procs :
             /\ (inv[p].pc = "match" /\ inv'[p].pc = "scan") =>
                   /\ inv[p].was_cached
                   /\ inv[p].nscan = 0
                   /\ inv[p].nmatch = 0
                   /\ inv'[p].codebases = <<>>
             /\ (/\ inv[p].pc = "match" /\ inv'[p].pc \notin {"match", "scan"}
                 /\ inv[p].nmatch = 0 /\ inv'[p].wanted # N_wild) =>
                   ~(inv[p].was_cached /\ RetainName(inv[p].codebases, inv'[p].wanted) = <<>>)
             /\ (inv[p].pc = "match" /\ inv[p].nmatch = 1 /\ inv'[p] # inv[p]) =>
                   /\ inv'[p].pc = "filter"
                   /\ inv'[p].nmatch = 2
                   /\ inv[p].codebases \in scanned[DirOf(inv[p].dirpath)]
                   /\ inv'[p].codebases = RetainName(inv[p].codebases, inv[p].wanted)]_vars

\* a cached entry set left no candidate, the tree was scanned again, and the
\* second name matching found the repository added since
C2_Witness ==
    /\ inv[1].pc = "filter"
    /\ inv[1].was_cached
    /\ inv[1].retry
    /\ inv[1].nscan = 1
    /\ inv[1].nmatch = 2
    /\ inv[1].codebases # <<>>

\* no invocation is between the creation of the cache file and its last write
NoBuildUnderWay == \A p \in Procs : inv[p].pc \notin {"create", "write"}

\* C13: after any sequence of invocations the one cache file holds the stamp
\* and the complete result of the latest scan, whatever root was scanned
\* before; and an invocation on a root whose stamp is not that of the latest
\* scan finds no cache and scans again.
C13_CacheHoldsLastScanOnly ==
    /\ []((last_scan.some /\ NoBuildUnderWay) =>
              cache = File(CacheFile(Stat(last_scan.dir), last_scan.codebases)))
    /\ [][\A p \in Procs :
             (/\ inv[p].pc = "read" /\ inv'[p] # inv[p]
              /\ last_scan.some /\ Stat(last_scan.dir) # LiveStat(p)) =>
                 inv'[p].pc = "scan" /\ ~inv'[p].was_cached]_vars

\* the third invocation, back on the first directory after the second one
\* was scanned, has scanned again and its record has replaced the other's
C13_Witness ==
    /\ runs = 3
    /\ inv[1].pc = "match"
    /\ DirOf(inv[1].dirpath) = "d1"
    /\ ~inv[1].force_rebuild
    /\ inv[1].nscan = 1
    /\ inv[1].nmatch = 0
    /\ inv[1].codebases # <<>>
    /\ scanned["d2"] # {}
    /\ last_scan = Scan("d1", inv[1].codebases)
    /\ cache = File(CacheFile(Stat("d1"), inv[1].codebases))

\* the traversal of tree enters a directory where the scanner gets an I/O
\* error
ScanFails(tree) == \E v \in Visited(tree, <<>>) : v.node.io = "err"

\* C20: when the scanner meets an I/O error at a directory of the tree,
\* build_cache fails: the invocation ends with the error, with no entry list
\* and no output, and the cache file stays as it was before the invocation:
\* the file changes only in an invocation whose scan has succeeded.
C20_FailedScanLeavesCache ==
    /\ [](\A p \in Procs : inv[p].pc \in {"create", "write"} => inv[p].nscan = 1)
    /\ [][\A p \in Procs :
             (/\ inv[p].pc = "scan" /\ inv'[p] # inv[p]
              /\ ScanFails(fs[DirOf(inv[p].dirpath)])) =>
                 /\ inv'[p].pc = "done"
                 /\ inv'[p].status = "err_io"
                 /\ inv'[p].nscan = 0
                 /\ inv'[p].codebases = <<>>
                 /\ inv'[p].out = <<>>
                 /\ cache' = cache]_vars
    /\ [][cache' # cache =>
             \E p \in Procs : inv[p].pc \in {"create", "write"} /\ inv'[p] # inv[p]]_vars

\* a rebuild of a tree holding an unreadable directory has failed, and the
\* record an earlier invocation wrote is still in the file
C20_Witness ==
    /\ inv[1].pc = "done"
    /\ inv[1].force_rebuild
    /\ inv[1].status = "err_io"
    /\ fs[DirOf(inv[1].dirpath)] = T_err
    /\ last_scan.some
    /\ last_scan.codebases # <<>>
    /\ cache = File(CacheFile(Stat(last_scan.dir), last_scan.codebases))

(***************************************************************************)
(* Properties of the Resolver, checked under SpecResolve.                  *)
(***************************************************************************)
Done(p) == inv[p].pc = "done"

\* C3: on every successful non-wildcard resolution the output is the search
\* root joined with the resolved relative path, then the subdirectory suffix
\* of the query when one was given, then one newline.
C3_OutputCarriesSuffix ==
    \A p \in Procs :
        (Done(p) /\ inv[p].status = "ok" /\ inv[p].wanted # N_wild) =>
            inv[p].out = PathPush(inv[p].dirpath, inv[p].codebases[inv[p].sel])
                             \o SubdirBytes(inv[p].subdir) \o <<NL>>

\* s is a symlink of the root of tree to a sibling directory with a longer
\* name that holds a ".git" entry
RootAlias(tree, s) ==
    /\ tree.io = "ok"
    /\ tree.git = "none"
    /\ s \in LinksOf(tree)
    /\ TargetIsSibling(tree, s)
    /\ Len(s) < Len(tree.ents[s].target)
    /\ tree.ents[tree.ents[s].target].node.git # "none"

\* every scan of tree holds exactly one entry ending in the name w: w itself
OnlyRepoNamed(tree, w) ==
    \A o \in scan_dir(tree) : o.ok /\ RetainName(o.codebases, w) = <<w>>

\* every scan result obtained for the root of p is a scan of its present tree
EntriesCurrent(p) ==
    LET d == DirOf(inv[p].dirpath)
    IN scanned[d] \subseteq {o.codebases : o \in scan_dir(fs[d])}

\* p has finished a query for the name S or T of a root alias S -> T, with no
\* filter and no subdirectory suffix, S and T being the only repositories of
\* their names
AliasQueryDone(p, s) ==
    /\ Done(p)
    /\ RootAlias(fs[DirOf(inv[p].dirpath)], s)
    /\ inv[p].wanted \in {s, fs[DirOf(inv[p].dirpath)].ents[s].target}
    /\ OnlyRepoNamed(fs[DirOf(inv[p].dirpath)], inv[p].wanted)
    /\ EntriesCurrent(p)
    /\ inv[p].filter = <<>>
    /\ ~inv[p].subdir.some

\* C6 as claimed: resolving the alias name S and resolving the target name T
\* both output the same joined path R/T.
C6_BothOutputTargetPath ==
    \A p \in Procs : \A s \in Names :
        AliasQueryDone(p, s) =>
            /\ inv[p].status = "ok"
            /\ inv[p].out = PathPush(inv[p].dirpath, fs[DirOf(inv[p].dirpath)].ents[s].target)
                                \o <<NL>>

\* C6: for a root holding a symlink S to a sibling directory T with
\* len(S) < len(T) and T/.git present, resolving the wanted name S outputs the
\* path through the alias, R/S, and resolving the wanted name T outputs R/T:
\* two different path texts for the same repository.
C6_EachOutputsItsOwnPath ==
    \A p \in Procs : \A s \in Names :
        AliasQueryDone(p, s) =>
            /\ inv[p].status = "ok"
            /\ inv[p].out = PathPush(inv[p].dirpath, inv[p].wanted) \o <<NL>>

\* the alias name a of the root alias a -> cc has been resolved, to /r/a
C6_Witness ==
    /\ AliasQueryDone(1, N_a)
    /\ inv[1].wanted = N_a
    /\ inv[1].dirpath = R_r
    /\ inv[1].out = <<47, 114, 47, 97, 10>>

\* the numbered line print_codebases prints for candidate i
NumberedLine(i, dir, path) ==
    <<SP, SP>> \o (IF i < 10 THEN <<SP, DIGIT0 + i>> ELSE <<DIGIT0 + (i \div 10), DIGIT0 + (i % 10)>>)
               \o <<SP, SP>> \o dir \o <<SEP>> \o path \o <<NL>>

\* the filter tokens that are integers, with their values
IntegerTokens == {<<<<48>>, 0>>, <<<<49>>, 1>>, <<<<50>>, 2>>, <<<<51>>, 3>>, <<<<52>>, 4>>,
                  <<<<43, 50>>, 2>>}

\* C9: when the filter token is an integer k and n candidates remain after
\* name matching: if 1 <= k <= n the k-th candidate is selected, whatever the
\* configured rules, the candidate list staying as it was; if k = 0 or k > n
\* all n numbered candidates are printed and the invocation fails with the
\* out-of-range error, selecting nothing.
C9_IndexFilter ==
    [][\A p \in Procs : \A tok \in IntegerTokens :
          (inv[p].pc = "filter" /\ inv'[p].pc = "done" /\ inv'[p].filter = tok[1]) =>
              LET k == tok[2]
                  cands == inv[p].codebases
                  n == Len(cands)
                  root == inv[p].dirpath
              IN /\ inv'[p].codebases = cands
                 /\ (1 <= k /\ k <= n) =>
                       /\ inv'[p].status = "ok"
                       /\ inv'[p].sel = k
                       /\ Take(inv'[p].out, Len(root) + 1 + Len(cands[k]))
                              = root \o <<SEP>> \o cands[k]
                 /\ (k = 0 \/ k > n) =>
                       /\ inv'[p].status = "err_range"
                       /\ inv'[p].sel = 0
                       /\ inv'[p].out = Flatten([i \in 1..n |-> NumberedLine(i, root, cands[i])])]_vars

\* of three candidates the filter "2" has selected the second, though the
\* configured rule names another
C9_Witness ==
    /\ Done(1)
    /\ inv[1].filter = <<50>>
    /\ Len(inv[1].codebases) = 3
    /\ inv[1].config = Cfg_exact
    /\ inv[1].status = "ok"
    /\ inv[1].sel = 2
    /\ inv[1].codebases[2] # P_b_cc

\* the exact-name rule of the configuration selects no candidate
ExactRuleSilent(config, wanted, cands) ==
    \/ ToStringLossy(wanted) \notin DOMAIN config.defaults
    \/ \A j \in DOMAIN cands : ToStringLossy(cands[j]) # config.defaults[ToStringLossy(wanted)]

\* C10: when more than one candidate remains and glob rules are configured,
\* the selected candidate is the first candidate, in candidate order, that
\* matches the earliest-declared pattern matching any candidate (and when no
\* pattern matches any, the invocation fails as ambiguous).
C10_PatternMajor ==
    \A p \in Procs :
        LET r == inv[p]
            cands == r.codebases
            pats == r.config.patterns
            hits(i) == {j \in DOMAIN cands : matches_path(pats[i], cands[j])}
            live == {i \in DOMAIN pats : hits(i) # {}}
        IN (/\ Done(p) /\ r.status \in {"ok", "err_ambiguous"}
            /\ r.wanted # N_wild
            /\ ~ParseUsize(r.filter).ok
            /\ Len(cands) > 1
            /\ pats # <<>>
            /\ ExactRuleSilent(r.config, r.wanted, cands)) =>
               IF live = {} THEN r.status = "err_ambiguous" /\ r.sel = 0
               ELSE LET first == CHOOSE i \in live : \A i2 \in live : i <= i2
                    IN /\ r.status = "ok"
                       /\ r.sel \in hits(first)
                       /\ \A j \in hits(first) : r.sel <= j

\* with the patterns b*, a* and the candidates a/cc, b/cc in this order, b/cc
\* is selected: the first candidate matches only the later pattern
C10_Witness ==
    /\ Done(1)
    /\ inv[1].config = Cfg_order
    /\ Len(inv[1].codebases) >= 2
    /\ inv[1].codebases[1] = P_a_cc
    /\ inv[1].codebases[2] = P_b_cc
    /\ inv[1].status = "ok"
    /\ inv[1].sel = 2

\* needle occurs in hay as a run of consecutive bytes
Occurs(needle, hay) ==
    \E k \in 0..(Len(hay) - Len(needle)) :
        \A i \in 1..Len(needle) : hay[k + i] = needle[i]

\* the candidates of cands that the substring filter f keeps for the name w
KeptBy(f, w, cands) ==
    LET keep(path) == Occurs(f, SubSeq(path, 1, Len(path) - Len(w)))
    IN SelectSeq(cands, keep)

\* C16: when the filter token is non-empty and no integer, the candidates
\* kept are exactly those in whose relative path, cut short by the length of
\* the wanted name, the filter occurs as a run of bytes (so a filter found
\* only in the matched name keeps nothing); and for every candidate that
\* passed name matching the length len(path) - len(wanted name) is not
\* negative, so the step does not abort.
C16_SubstringFilter ==
    [][\A p \in Procs :
          (/\ inv[p].pc = "filter" /\ inv'[p].pc = "done"
           /\ inv'[p].filter # <<>>
           /\ inv'[p].filter \notin {tok[1] : tok \in IntegerTokens}) =>
              /\ \A i \in DOMAIN inv[p].codebases :
                     Len(inv[p].codebases[i]) - Len(inv[p].wanted) >= 0
              /\ inv'[p].status # "panic"
              /\ inv'[p].codebases = KeptBy(inv'[p].filter, inv[p].wanted, inv[p].codebases)]_vars

\* of the candidates a/cc, b/cc and cc of a fresh scan the filter "b" has
\* kept b/cc alone
C16_Witness ==
    /\ Done(1)
    /\ fs[DirOf(inv[1].dirpath)] = T_three
    /\ inv[1].nscan = 1
    /\ inv[1].wanted = N_cc
    /\ inv[1].filter = <<98>>
    /\ inv[1].codebases = <<P_b_cc>>
    /\ inv[1].status = "ok"

\* an exact-name rule exists for the wanted name of r, and no remaining
\* candidate is rendered as its literal path
ExactRuleMisses(r) ==
    /\ ToStringLossy(r.wanted) \in DOMAIN r.config.defaults
    /\ \A j \in DOMAIN r.codebases :
           ToStringLossy(r.codebases[j]) # r.config.defaults[ToStringLossy(r.wanted)]

\* p has finished the disambiguation stage: no wildcard, no index filter
PastFilters(p) ==
    /\ Done(p)
    /\ inv[p].wanted # N_wild
    /\ inv[p].status \in {"ok", "err_ambiguous", "err_nomatch"}
    /\ inv[p].filter \notin {tok[1] : tok \in IntegerTokens}

\* C17: with more than one candidate remaining and an exact-name rule for the
\* wanted name whose literal path is the rendered path of no remaining
\* candidate, the glob rules decide, in configured order; when no glob matches
\* a candidate either, the numbered list of the candidates is printed and
\* nothing else, the hint names the wanted name and the first candidate, and
\* the invocation fails as ambiguous with no candidate selected.  With exactly
\* one candidate remaining that candidate is resolved, whatever the rules.
C17_FallThroughToAmbiguity ==
    \A p \in Procs :
        LET r == inv[p]
            cands == r.codebases
            pats == r.config.patterns
            hits(i) == {j \in DOMAIN cands : matches_path(pats[i], cands[j])}
            live == {i \in DOMAIN pats : hits(i) # {}}
        IN PastFilters(p) =>
              /\ (Len(cands) > 1 /\ ExactRuleMisses(r) /\ live # {}) =>
                     LET first == CHOOSE i \in live : \A i2 \in live : i <= i2
                     IN /\ r.status = "ok"
                        /\ r.sel \in hits(first)
                        /\ \A j \in hits(first) : r.sel <= j
              /\ (Len(cands) > 1 /\ ExactRuleMisses(r) /\ live = {}) =>
                     /\ r.status = "err_ambiguous"
                     /\ r.sel = 0
                     /\ r.out = Flatten([i \in DOMAIN cands |->
                                            NumberedLine(i, r.dirpath, cands[i])])
                     /\ r.hint = <<ToStringLossy(r.wanted), ToStringLossy(cands[1])>>
              /\ Len(cands) = 1 =>
                     /\ r.status = "ok"
                     /\ r.sel = 1
                     /\ r.out = r.dirpath \o <<SEP>> \o cands[1] \o SubdirBytes(r.subdir)
                                    \o <<NL>>

\* with the rule cc = xx and the one pattern x*, several candidates named cc
\* were left ambiguous: the list was printed and the hint names the first
C17_Witness ==
    /\ Done(1)
    /\ inv[1].config = Cfg_silent
    /\ inv[1].wanted = N_cc
    /\ Len(inv[1].codebases) >= 2
    /\ inv[1].status = "err_ambiguous"
    /\ inv[1].out # <<>>
    /\ inv[1].hint = <<N_cc, inv[1].codebases[1]>>

\* C19: the wildcard query "_" ends successfully for every entry set a scan
\* or the cache can hand it, the set holding the empty relative path of a
\* root that is a repository included: taking the final component of an
\* entry never aborts the process.
C19_WildcardNeverAborts ==
    \A p \in Procs :
        (Done(p) /\ inv[p].wanted = N_wild) => inv[p].status # "panic"

\* build_cache has returned to run in the invocation of p, whose entry set
\* is the scan result it returned
JustBuilt(p) == inv[p].pc = "match" /\ inv[p].nscan = 1

\* C14: after build_cache has completed for a root and returned a non-empty
\* entry sequence, read_cache for the same root returns that sequence: the
\* same entries in the same order, the empty relative path of a root that is
\* a repository included.
C14_CacheRoundTrip ==
    \A p \in Procs :
        (JustBuilt(p) /\ inv[p].codebases # <<>>) =>
            read_cache(LiveStat(p), cache) = [kind |-> "Some", codebases |-> inv[p].codebases]

\* the cache of a root that is a repository has been written and reads back
\* as the one empty path
C14_Witness ==
    /\ JustBuilt(1)
    /\ inv[1].codebases = <<<<>>>>
    /\ cache.exists
    /\ Len(cache.data) = 2 * U64Bytes + 1
    /\ read_cache(LiveStat(1), cache).codebases = <<<<>>>>

\* the literal of the exact-name rule for the wanted name of r is the
\* relative path of candidate j
RuleNames(r, j) ==
    /\ ToStringLossy(r.wanted) \in DOMAIN r.config.defaults
    /\ j \in DOMAIN r.codebases
    /\ IsUtf8(r.codebases[j])
    /\ ToStr(r.codebases[j]) = r.config.defaults[ToStringLossy(r.wanted)]

\* p has finished disambiguating more than one candidate
Disambiguated(p) ==
    /\ Done(p)
    /\ inv[p].wanted # N_wild
    /\ inv[p].status \in {"ok", "err_ambiguous"}
    /\ ~ParseUsize(ToStringLossy(inv[p].filter)).ok
    /\ Len(inv[p].codebases) > 1

\* C11: when more than one candidate remains and an exact-name rule exists
\* for the wanted name whose literal path is the relative path of one
\* candidate, that candidate is the one selected, in every order of the
\* candidates and whatever glob rules are configured.
C11_ExactRuleSelectsItsCandidate ==
    \A p \in Procs :
        (Disambiguated(p) /\ \E j \in DOMAIN inv[p].codebases : RuleNames(inv[p], j)) =>
            /\ inv[p].status = "ok"
            /\ RuleNames(inv[p], inv[p].sel)

\* the bytes of a relative path after its last separator
BaseName(path) ==
    LET seps == {i \in DOMAIN path : path[i] = SEP}
        last == IF seps = {} THEN 0 ELSE CHOOSE i \in seps : \A j \in seps : j <= i
    IN Drop(path, last)

\* the texts made of the members of S, one per line, in any order
LinesOf(S) == {Flatten([i \in DOMAIN o |-> o[i] \o <<NL>>]) : o \in Orders(S)}

\* C12: for the wildcard query "_" the invocation ends successfully; its
\* output holds the final path component of every entry of the current entry
\* set, each distinct one on exactly one line; no name matching, no rescan,
\* no filtering and no disambiguation has run.
C12_WildcardListsBasenames ==
    [][\A p \in Procs :
          (inv[p].pc = "match" /\ inv'[p] # inv[p] /\ inv'[p].wanted = N_wild) =>
              /\ inv'[p].pc = "done"
              /\ inv'[p].status = "ok"
              /\ inv'[p].out \in LinesOf({BaseName(inv[p].codebases[i]) :
                                             i \in DOMAIN inv[p].codebases})
              /\ inv'[p].codebases = inv[p].codebases
              /\ inv'[p].nmatch = 0
              /\ inv'[p].nscan = inv[p].nscan
              /\ inv'[p].sel = 0
              /\ inv'[p].hint = <<>>]_vars

(***************************************************************************)
(* Specification of two invocations racing on the cache file: the steps of *)
(* the two processes interleave at their system calls.  Nothing locks the  *)
(* file, and each write(2) of a BufWriter is a step of its own.            *)
(***************************************************************************)
MaxRaceRuns == 2

RaceWanteds == {N_cc}

InitRace == InitWith({T_two}, {c \in EarlierCaches({}) : ~c.file.exists})

NextRace ==
    \E p \in Procs :
        \/ Start(p, ScanRoots, AnyRebuild, MaxRaceRuns)
        \/ ReadCache(p)
        \/ ScanDir(p)
        \/ CreateFile(p)
        \/ WriteChunk(p)
        \/ Match(p, RaceWanteds)
        \/ Resolve(p, JustNoSubdir, JustNoFilter, JustNoConfig)

SpecRace == InitRace /\ [][NextRace]_vars

\* C5: whatever truncated or partial content of the cache file a reader
\* observes while another invocation is in build_cache, the read fails or
\* reports "no cache": an entry list the reader accepts from the file is a
\* complete scan result, never a part of one.
C5_ReaderNeverAcceptsPartial ==
    \A p \in Procs :
        (inv[p].pc = "match" /\ inv[p].was_cached /\ inv[p].nmatch = 0) =>
            inv[p].codebases \in UNION {scanned[d] : d \in Dirs}

====
